---- MODULE Spec2Model ----
(***************************************************************************)
(* Model of TelemetryClient (src/src/telemetryClient.ts): field redaction, *)
(* the per-instance queue and debounce timer, the process-wide clock-skew  *)
(* cache, and the bulk upload.                                             *)
(*                                                                         *)
(* JavaScript scheduling is modelled explicitly: the synchronous part of   *)
(* a call is one action; every `await` ends the action and its             *)
(* continuation is a job of the microtask queue.  Timer callbacks and      *)
(* network completions are macrotasks and run only when the microtask      *)
(* queue is empty.  Time is the local clock in milliseconds.               *)
(***************************************************************************)
EXTENDS Integers, Sequences, FiniteSets, TLC

VARIABLES
  config,                 \* this.config, per client instance
  queue,                  \* this.queue, per client instance
  debounce,               \* this.debounce: handle of the last timer armed (0 = undefined)
  timers,                 \* the runtime's outstanding timeouts, per client instance
  timeDifference,         \* static TelemetryClient.timeDifference
  timeDifferenceRequest,  \* static TelemetryClient.timeDifferenceRequest (a promise)
  waiters,                \* getTimeDifference calls awaiting the pending promise, in order
  microtasks,             \* the microtask queue: continuations ready to run
  uploads,                \* sendBulk calls awaiting their fetch (indices into dispatches)
  dispatches,             \* history: every POST issued, in order
  clockRequests,          \* history: number of GETs issued to the time source
  submitted,              \* history: number of sendTelemetry calls so far
  now,                    \* local clock, milliseconds
  escaped,                \* history: exceptions that left sendTelemetry or sendBulk
  last                    \* history: the step taken last

vars == <<config, queue, debounce, timers, timeDifference, timeDifferenceRequest,
          waiters, microtasks, uploads, dispatches, clockRequests, submitted, now, escaped,
          last>>

-----------------------------------------------------------------------------
(* Bounds of the model *)

MaxSubmits == 2
MaxTicks == 4
TickMs == 5
StartTime == 995

Clients == {"c1", "c2"}

(* Program constants *)

DebounceDelay == 10
MsPerSecond == 1000

-----------------------------------------------------------------------------
(* JavaScript values *)

Undefined == "undefined"
EmptyObject == << >>

ObjectKeys(obj) == DOMAIN obj

Get(obj, key) == IF key \in DOMAIN obj THEN obj[key] ELSE Undefined

(* A value of type number | null | undefined *)
TdUndefined == [t |-> "undefined", v |-> 0]
TdNull == [t |-> "null", v |-> 0]
TdNaN == [t |-> "nan", v |-> 0]
TdNum(n) == [t |-> "num", v |-> n]

-----------------------------------------------------------------------------
(* Telemetry and TelemetryConfig *)

GatedKeys == {"authentication", "requestStatusCode", "requestStartTime", "requestEndTime"}

UngatedKeys == {"libVersion", "libVersionHash", "methodName", "baseRequestConfigUsed",
                "onResponseMiddlewareUsed", "onErrorMiddlewareUsed", "callbackUsed",
                "queryExists", "bodyExists", "headersExists", "noCheckAtlassianToken"}

RequiredKeys == (UngatedKeys \cup GatedKeys) \ {"noCheckAtlassianToken"}

TelemetryKeys == UngatedKeys \cup GatedKeys

RawA == [k \in TelemetryKeys |->
           CASE k = "authentication" -> "basic"
             [] k = "requestStatusCode" -> "200"
             [] k = "requestStartTime" -> "2021-01-01T00:00:00.000Z"
             [] k = "requestEndTime" -> "2021-01-01T00:00:01.000Z"
             [] k \in {"libVersion", "libVersionHash", "methodName"} -> "a"
             [] OTHER -> "true"]

RawB == [k \in RequiredKeys |->
           CASE k = "authentication" -> "oauth2"
             [] k = "requestStatusCode" -> "404"
             [] k = "requestStartTime" -> "2021-01-01T00:00:02.000Z"
             [] k = "requestEndTime" -> "2021-01-01T00:00:03.000Z"
             [] k \in {"libVersion", "libVersionHash", "methodName"} -> "b"
             [] OTHER -> "false"]

RawEvents == {RawA, RawB}

(* null passed where a Telemetry is expected (the marker stands for the value null) *)
NullEvent == [null |-> "null"]

(* What the call sites pass to sendTelemetry: an event without the optional member, or
   null; prepareTelemetry is run on every raw event under SpecPrepare *)
SubmittedEvents == {RawB, NullEvent}

SwitchNames == {"allowedToPassAuthenticationType", "allowedToPassRequestStatusCode",
                "allowedToPassRequestTimings"}

SwitchValues == {"true", "false", Undefined}

BoolConfig(b) == [isBool |-> TRUE, bool |-> b, map |-> EmptyObject]
MapConfig(m) == [isBool |-> FALSE, bool |-> FALSE, map |-> m]

AllConfigs == {BoolConfig(b) : b \in BOOLEAN} \cup
              {MapConfig(m) : m \in UNION {[S -> SwitchValues] : S \in SUBSET SwitchNames}}

CfgTrue == BoolConfig(TRUE)
CfgFalse == BoolConfig(FALSE)
CfgEmpty == MapConfig(EmptyObject)
CfgAllOff == MapConfig([s \in SwitchNames |-> "false"])
CfgNoTimings == MapConfig([s \in {"allowedToPassRequestTimings"} |-> "false"])

-----------------------------------------------------------------------------
(* prepareTelemetry: the field redactor *)

Nullish(value, default) == IF value = Undefined THEN default ELSE value

(* mappedConfig with requestEndTime left ungated *)
mappedConfig_endTimeUngated(map) ==
  [k \in TelemetryKeys |->
     CASE k = "authentication" ->
            Nullish(Get(map, "allowedToPassAuthenticationType"), "true") = "true"
       [] k = "requestStatusCode" ->
            Nullish(Get(map, "allowedToPassRequestStatusCode"), "true") = "true"
       [] k = "requestStartTime" ->
            Nullish(Get(map, "allowedToPassRequestTimings"), "true") = "true"
       [] OTHER -> TRUE]

mappedConfig(map) ==
  [k \in TelemetryKeys |->
     CASE k = "authentication" ->
            Nullish(Get(map, "allowedToPassAuthenticationType"), "true") = "true"
       [] k = "requestStatusCode" ->
            Nullish(Get(map, "allowedToPassRequestStatusCode"), "true") = "true"
       [] k \in {"requestStartTime", "requestEndTime"} ->
            Nullish(Get(map, "allowedToPassRequestTimings"), "true") = "true"
       [] OTHER -> TRUE]

(* prepareTelemetry returning {} as soon as no gated category is allowed *)
prepareTelemetry_dropWhenAllOff(cfg, rawTelemetry) ==
  IF cfg.isBool
    THEN (IF cfg.bool THEN rawTelemetry ELSE EmptyObject)
    ELSE IF \A key \in GatedKeys : ~mappedConfig(cfg.map)[key]
      THEN EmptyObject
      ELSE [k \in {key \in TelemetryKeys : mappedConfig(cfg.map)[key]} |->
              Get(rawTelemetry, k)]

(* prepareTelemetry running the boolean true through the key mapping *)
prepareTelemetry_trueMapped(cfg, rawTelemetry) ==
  IF cfg.isBool /\ ~cfg.bool
    THEN EmptyObject
    ELSE IF ~cfg.isBool /\ Cardinality(ObjectKeys(cfg.map)) = 0
      THEN EmptyObject
      ELSE [k \in {key \in TelemetryKeys : mappedConfig(cfg.map)[key]} |->
              Get(rawTelemetry, k)]

(* prepareTelemetry without the early return for a map with zero entries *)
prepareTelemetry_noEmptyCheck(cfg, rawTelemetry) ==
  IF cfg.isBool
    THEN (IF cfg.bool THEN rawTelemetry ELSE EmptyObject)
    ELSE [k \in {key \in TelemetryKeys : mappedConfig(cfg.map)[key]} |->
            Get(rawTelemetry, k)]

prepareTelemetry(cfg, rawTelemetry) ==
  IF cfg.isBool
    THEN (IF cfg.bool THEN rawTelemetry ELSE EmptyObject)
    ELSE IF Cardinality(ObjectKeys(cfg.map)) = 0
      THEN EmptyObject
      ELSE [k \in {key \in TelemetryKeys : mappedConfig(cfg.map)[key]} |->
              Get(rawTelemetry, k)]

(* Whether lines 36-38 throw: for null, Object.keys(null) throws when the config is
   true, and rawTelemetry[key] throws when the config is a map with entries *)
PrepareThrows(cfg, rawTelemetry) ==
  /\ rawTelemetry = NullEvent
  /\ IF cfg.isBool THEN cfg.bool ELSE Cardinality(ObjectKeys(cfg.map)) # 0

(* catch { // ignore }: what leaves the try statement of sendTelemetry or sendBulk when
   the exception is thrown inside it *)
CatchIgnore_rethrow(exception) == {exception}

CatchIgnore(exception) == {}

-----------------------------------------------------------------------------
(* The time source and the skew computation of getTimeDifference *)

ServerTimes == {0, 2000}

ClockOutcomes == {[kind |-> "ok", datetime |-> ms] : ms \in ServerTimes} \cup
                 {[kind |-> k, datetime |-> 0] :
                    k \in {"networkError", "malformedJson", "noDatetime"}}

(* fetch(..).then(r => r.json()).then(({datetime}) => new Date(datetime)).catch(() => null):
   a rejected fetch or json() gives null; a body without a datetime gives Invalid Date. *)
ServerTime(outcome) ==
  CASE outcome.kind = "ok" -> [t |-> "date", ms |-> outcome.datetime]
    [] outcome.kind = "noDatetime" -> [t |-> "invalid", ms |-> 0]
    [] OTHER -> [t |-> "null", ms |-> 0]

Unset == [st |-> "unset", value |-> [t |-> "null", ms |-> 0]]
Pending == [st |-> "pending", value |-> [t |-> "null", ms |-> 0]]
Settled(v) == [st |-> "settled", value |-> v]

(* Math.floor(x / d) for d > 0 *)
MathFloorDiv(x, d) == x \div d

(* serverTime ? Math.floor((serverTime.getTime() - now.getTime()) / 1000) : null;
   a Date object is truthy also when invalid, and its getTime() is NaN. *)
ComputeTimeDifference(serverTime, nowMs) ==
  CASE serverTime.t = "null" -> TdNull
    [] serverTime.t = "invalid" -> TdNaN
    [] OTHER -> TdNum(MathFloorDiv(serverTime.ms - nowMs, MsPerSecond))

(* TelemetryClient.timeDifferenceRequest || fetch(...): the left operand is truthy once set *)
ReuseRequest_never(request) == FALSE

ReuseRequest(request) == request.st # "unset"

-----------------------------------------------------------------------------
(* Timers *)

clearTimeout_noop(ts, handle) == ts

clearTimeout(ts, handle) == {t \in ts : t.handle # handle}

setTimeout(ts, handle, nowMs, delay) ==
  ts \cup {[handle |-> handle, armedAt |-> nowMs, due |-> nowMs + delay]}

-----------------------------------------------------------------------------
(* TelemetryBody and its serialisation *)

MetadataKeys == {"telemetryClientVersion", "telemetryClientVersionHash", "timeDifference"}

TelemetryBody(preparedTelemetry, td) ==
  [k \in ObjectKeys(preparedTelemetry) \cup MetadataKeys |->
     CASE k = "telemetryClientVersion" -> "version"
       [] k = "telemetryClientVersionHash" -> "hash"
       [] k = "timeDifference" -> td
       [] OTHER -> preparedTelemetry[k]]

(* JSON.stringify of one object: undefined members are omitted, NaN is written null *)
JsonObject(obj) ==
  [k \in {key \in DOMAIN obj : key = "timeDifference" \/ obj[key] # Undefined} |->
     IF k = "timeDifference"
       THEN (IF obj[k].t = "num" THEN obj[k] ELSE TdNull)
       ELSE obj[k]]

JSONStringify(q) == [i \in 1..Len(q) |-> JsonObject(q[i].data)]

RecordIds(q) == [i \in 1..Len(q) |-> q[i].id]

-----------------------------------------------------------------------------
(* Initial state: the clients as constructed, nothing submitted yet *)

(* The configurations the clients are constructed with: c1 with false or with a map
   that switches every category off, c2 with true or with the empty map *)
SpecConfigs == {cfg \in [Clients -> {CfgTrue, CfgFalse, CfgEmpty, CfgAllOff}] :
                  /\ cfg["c1"] \in {CfgFalse, CfgAllOff}
                  /\ cfg["c2"] \in {CfgTrue, CfgEmpty}}

Job(kind, call, td, serverTime) ==
  [kind |-> kind, call |-> call, td |-> td, serverTime |-> serverTime]

Step(op, c, info, at, raw, prepared) ==
  [op |-> op, client |-> c, info |-> info, at |-> at, raw |-> raw, prepared |-> prepared]

InitWith(configs) ==
  /\ config \in configs
  /\ queue = [c \in Clients |-> << >>]
  /\ debounce = [c \in Clients |-> 0]
  /\ timers = [c \in Clients |-> {}]
  /\ timeDifference = TdUndefined
  /\ timeDifferenceRequest = Unset
  /\ waiters = << >>
  /\ microtasks = << >>
  /\ uploads = {}
  /\ dispatches = << >>
  /\ clockRequests = 0
  /\ submitted = 0
  /\ now = StartTime
  /\ escaped = {}
  /\ last = Step("constructor", "c1", "", 0, EmptyObject, EmptyObject)

Init == InitWith(SpecConfigs)

-----------------------------------------------------------------------------
(* sendTelemetry up to its await: prepare, early return, re-arm the timer, and the
   synchronous part of getTimeDifference *)

(* if (Object.keys(preparedTelemetry).length === 0) return; *)
EarlyReturn_never(preparedTelemetry) == FALSE

EarlyReturn(preparedTelemetry) == Cardinality(ObjectKeys(preparedTelemetry)) = 0

(* setTimeout called without the delay *)
setDebounce_noDelay(ts, handle, nowMs) == setTimeout(ts, handle, nowMs, 0)

setDebounce(ts, handle, nowMs) == setTimeout(ts, handle, nowMs, DebounceDelay)

sendTelemetrySync(c, rawTelemetry) ==
  /\ escaped' = escaped
  /\ LET id == submitted + 1
         preparedTelemetry == prepareTelemetry(config[c], rawTelemetry)
         call == [id |-> id, client |-> c, prepared |-> preparedTelemetry]
         pendingTimer == \E t \in timers[c] : t.handle = debounce[c]
         cleared == IF debounce[c] # 0 THEN clearTimeout(timers[c], debounce[c])
                                      ELSE timers[c]
     IN
     /\ submitted' = id
     /\ IF EarlyReturn(preparedTelemetry)
          THEN /\ last' = Step("sendTelemetry", c, "dropped", now, rawTelemetry,
                               preparedTelemetry)
               /\ UNCHANGED <<timers, debounce, timeDifferenceRequest, clockRequests,
                              waiters, microtasks>>
          ELSE /\ timers' = [timers EXCEPT ![c] = setDebounce(cleared, id, now)]
               /\ debounce' = [debounce EXCEPT ![c] = id]
               /\ last' = Step("sendTelemetry", c,
                               IF pendingTimer THEN "rearmed" ELSE "armed",
                               IF pendingTimer
                                 THEN (CHOOSE t \in timers[c] : t.handle = debounce[c]).armedAt
                                 ELSE now,
                               rawTelemetry, preparedTelemetry)
               /\ IF timeDifference # TdUndefined
                    THEN /\ microtasks' = Append(microtasks,
                                Job("sendTelemetry", call, timeDifference, Unset.value))
                         /\ UNCHANGED <<timeDifferenceRequest, clockRequests, waiters>>
                    ELSE /\ IF ReuseRequest(timeDifferenceRequest)
                              THEN UNCHANGED <<timeDifferenceRequest, clockRequests>>
                              ELSE /\ timeDifferenceRequest' = Pending
                                   /\ clockRequests' = clockRequests + 1
                         /\ IF timeDifferenceRequest'.st = "pending"
                              THEN /\ waiters' = Append(waiters, call)
                                   /\ UNCHANGED microtasks
                              ELSE /\ microtasks' = Append(microtasks,
                                          Job("getTimeDifference", call, TdUndefined,
                                              timeDifferenceRequest'.value))
                                   /\ UNCHANGED waiters

sendTelemetry(c, rawTelemetry) ==
  /\ submitted < MaxSubmits
  /\ IF PrepareThrows(config[c], rawTelemetry)
       THEN /\ submitted' = submitted + 1
            /\ escaped' = escaped \cup CatchIgnore("TypeError")
            /\ last' = Step("sendTelemetry", c, "caught", now, rawTelemetry, EmptyObject)
            /\ UNCHANGED <<timers, debounce, timeDifferenceRequest, clockRequests,
                           waiters, microtasks>>
       ELSE sendTelemetrySync(c, rawTelemetry)
  /\ UNCHANGED <<config, queue, timeDifference, uploads, dispatches, now>>

(* The time source answers: the promise settles and every awaiting getTimeDifference
   becomes a microtask, in the order the calls were made *)
ClockResponse(outcome) ==
  /\ timeDifferenceRequest.st = "pending"
  /\ microtasks = << >>
  /\ timeDifferenceRequest' = Settled(ServerTime(outcome))
  /\ microtasks' = [i \in 1..Len(waiters) |->
                       Job("getTimeDifference", waiters[i], TdUndefined, ServerTime(outcome))]
  /\ waiters' = << >>
  /\ last' = Step("clockResponse", "c1", outcome.kind, now, EmptyObject, EmptyObject)
  /\ UNCHANGED <<config, queue, debounce, timers, timeDifference, uploads, dispatches,
                 clockRequests, submitted, now, escaped>>

(* getTimeDifference after its await: compute and store the difference, return it *)
getTimeDifference ==
  /\ microtasks # << >>
  /\ Head(microtasks).kind = "getTimeDifference"
  /\ LET job == Head(microtasks)
         td == ComputeTimeDifference(job.serverTime, now)
     IN /\ timeDifference' = td
        /\ microtasks' = Append(Tail(microtasks),
                                Job("sendTelemetry", job.call, td, job.serverTime))
        /\ last' = Step("getTimeDifference", job.call.client, "", now, EmptyObject,
                        EmptyObject)
  /\ UNCHANGED <<config, queue, debounce, timers, timeDifferenceRequest, waiters, uploads,
                 dispatches, clockRequests, submitted, now, escaped>>

(* sendTelemetry pushing only a body the queue does not hold yet *)
sendTelemetryResume_dedupe ==
  /\ microtasks # << >>
  /\ Head(microtasks).kind = "sendTelemetry"
  /\ LET job == Head(microtasks)
         c == job.call.client
         data == TelemetryBody(job.call.prepared, job.td)
     IN /\ queue' = [queue EXCEPT ![c] =
                       IF \E i \in 1..Len(@) : @[i].data = data
                         THEN @
                         ELSE Append(@, [id |-> job.call.id, data |-> data])]
        /\ last' = Step("push", c, "", now, EmptyObject, job.call.prepared)
  /\ microtasks' = Tail(microtasks)
  /\ UNCHANGED <<config, debounce, timers, timeDifference, timeDifferenceRequest, waiters,
                 uploads, dispatches, clockRequests, submitted, now, escaped>>

(* sendTelemetry after its await: build the body and push it *)
sendTelemetryResume ==
  /\ microtasks # << >>
  /\ Head(microtasks).kind = "sendTelemetry"
  /\ LET job == Head(microtasks)
         c == job.call.client
         data == TelemetryBody(job.call.prepared, job.td)
     IN /\ queue' = [queue EXCEPT ![c] = Append(@, [id |-> job.call.id, data |-> data])]
        /\ last' = Step("push", c, "", now, EmptyObject, job.call.prepared)
  /\ microtasks' = Tail(microtasks)
  /\ UNCHANGED <<config, debounce, timers, timeDifference, timeDifferenceRequest, waiters,
                 uploads, dispatches, clockRequests, submitted, now, escaped>>

-----------------------------------------------------------------------------
(* The timer fires and runs sendBulk up to its await *)

(* sendBulk without the queue.length test *)
sendBulk_noLengthCheck(c) ==
  /\ dispatches' = Append(dispatches,
         [client |-> c, body |-> JSONStringify(queue[c]), ids |-> RecordIds(queue[c])])
  /\ uploads' = uploads \cup {Len(dispatches) + 1}

(* sendBulk posting the head of the queue only *)
sendBulk_firstOnly(c) ==
  IF Len(queue[c]) # 0
    THEN /\ dispatches' = Append(dispatches,
                [client |-> c, body |-> JSONStringify(SubSeq(queue[c], 1, 1)),
                 ids |-> RecordIds(SubSeq(queue[c], 1, 1))])
         /\ uploads' = uploads \cup {Len(dispatches) + 1}
    ELSE UNCHANGED <<dispatches, uploads>>

sendBulk(c) ==
  IF Len(queue[c]) # 0
    THEN /\ dispatches' = Append(dispatches,
                [client |-> c, body |-> JSONStringify(queue[c]), ids |-> RecordIds(queue[c])])
         /\ uploads' = uploads \cup {Len(dispatches) + 1}
    ELSE UNCHANGED <<dispatches, uploads>>

TimerFire(c) ==
  /\ microtasks = << >>
  /\ \E t \in timers[c] :
       /\ now >= t.due
       /\ timers' = [timers EXCEPT ![c] = @ \ {t}]
       /\ last' = Step("timerFire", c, IF Len(queue[c]) # 0 THEN "dispatched" ELSE "empty",
                       t.armedAt, EmptyObject, EmptyObject)
  /\ sendBulk(c)
  /\ UNCHANGED <<config, queue, debounce, timeDifference, timeDifferenceRequest, waiters,
                 microtasks, clockRequests, submitted, now, escaped>>

UploadOutcomes == {"resolved", "rejected"}

(* sendBulk after its await: the queue is emptied when fetch resolved; a rejection
   lands in the catch block *)
sendBulkResume(u, outcome) ==
  /\ microtasks = << >>
  /\ u \in uploads
  /\ uploads' = uploads \ {u}
  /\ LET c == dispatches[u].client
     IN /\ IF outcome = "resolved"
             THEN /\ queue' = [queue EXCEPT ![c] = << >>]
                  /\ UNCHANGED escaped
             ELSE /\ escaped' = escaped \cup CatchIgnore("FetchError")
                  /\ UNCHANGED queue
        /\ last' = Step("sendBulkResume", c, outcome, u, EmptyObject, EmptyObject)
  /\ UNCHANGED <<config, debounce, timers, timeDifference, timeDifferenceRequest, waiters,
                 microtasks, dispatches, clockRequests, submitted, now>>

(* The local clock advances *)
Tick ==
  /\ now < StartTime + MaxTicks * TickMs
  /\ now' = now + TickMs
  /\ last' = Step("tick", "c1", "", now', EmptyObject, EmptyObject)
  /\ UNCHANGED <<config, queue, debounce, timers, timeDifference, timeDifferenceRequest,
                 waiters, microtasks, uploads, dispatches, clockRequests, submitted,
                 escaped>>

Next ==
  \/ \E c \in Clients, raw \in SubmittedEvents : sendTelemetry(c, raw)
  \/ \E outcome \in ClockOutcomes : ClockResponse(outcome)
  \/ getTimeDifference
  \/ sendTelemetryResume
  \/ \E c \in Clients : TimerFire(c)
  \/ \E u \in uploads, outcome \in UploadOutcomes : sendBulkResume(u, outcome)
  \/ Tick

Spec == Init /\ [][Next]_vars

-----------------------------------------------------------------------------
(* prepareTelemetry on its own, over every configuration and raw event *)

InitPrepare == InitWith([Clients -> AllConfigs])

Prepare(c, rawTelemetry) ==
  /\ last' = Step("prepareTelemetry", c, "", 0, rawTelemetry,
                  prepareTelemetry(config[c], rawTelemetry))
  /\ UNCHANGED <<config, queue, debounce, timers, timeDifference, timeDifferenceRequest,
                 waiters, microtasks, uploads, dispatches, clockRequests, submitted, now,
                 escaped>>

NextPrepare == \E c \in Clients, raw \in RawEvents : Prepare(c, raw)

SpecPrepare == InitPrepare /\ [][NextPrepare]_vars

-----------------------------------------------------------------------------
(* Helpers of the properties *)

Range(seq) == {seq[i] : i \in 1..Len(seq)}

DropsEverything(cfg) == cfg \in {CfgFalse, CfgEmpty}

(* Nothing is pending: no timer, no call awaiting, no request in flight *)
Quiescent ==
  /\ \A c \in Clients : timers[c] = {}
  /\ waiters = << >>
  /\ microtasks = << >>
  /\ uploads = {}
  /\ timeDifferenceRequest.st # "pending"

ClaimedDebounce == 10 * MsPerSecond

-----------------------------------------------------------------------------
(* C1: whenever a flush that dispatched an upload has finished, its client's queue is
   empty, whether fetch resolved or rejected. *)
C1_QueueEmptyAfterFlush ==
  last.op = "sendBulkResume" => queue[last.client] = << >>

(* C2: no record is part of two dispatched payloads. *)
C2_NoRecordSentTwice ==
  \A i, j \in 1..Len(dispatches) :
     i # j => Range(dispatches[i].ids) \cap Range(dispatches[j].ids) = {}

(* C3: once nothing is pending any more (no timer, no call, no request), every record
   that sits in a queue has been part of a dispatched payload. *)
C3_EveryRecordDispatched ==
  Quiescent =>
    \A c \in Clients : \A i \in 1..Len(queue[c]) :
       \E d \in 1..Len(dispatches) : queue[c][i].id \in Range(dispatches[d].ids)

(* C4: at most one request goes to the time source; while calls are awaiting, exactly
   one has been issued and it is the pending one, and every call resumed from the await
   holds the result of that one request. *)
C4_OneClockRequest ==
  /\ clockRequests <= 1
  /\ Len(waiters) > 0 => clockRequests = 1 /\ timeDifferenceRequest.st = "pending"
  /\ \A i \in 1..Len(microtasks) :
        microtasks[i].kind = "getTimeDifference" =>
          /\ clockRequests = 1
          /\ timeDifferenceRequest = Settled(microtasks[i].serverTime)

C4_Witness ==
  /\ Len(waiters) = 2
  /\ waiters[1].client # waiters[2].client
  /\ clockRequests = 1

(* C5: once the clock request has failed and a difference is cached, the cached
   difference is null and one request has been issued in all. *)
C5_FailureCachesNull ==
  (/\ timeDifferenceRequest.st = "settled"
   /\ timeDifferenceRequest.value.t # "date"
   /\ timeDifference # TdUndefined)
  => timeDifference = TdNull /\ clockRequests = 1

(* C6: a cached difference is never written with another value. *)
C6_CachedOnce ==
  [][timeDifference # TdUndefined => timeDifference' = timeDifference]_vars

(* C7: a timer never fires earlier than ten seconds after it was armed. *)
C7_FlushTenSecondsAfterArm ==
  last.op = "timerFire" => now - last.at >= ClaimedDebounce

(* C8: every client has at most one timer outstanding, and it is the one this.debounce
   refers to. *)
C8_AtMostOneTimer ==
  \A c \in Clients :
     /\ Cardinality(timers[c]) <= 1
     /\ \A t \in timers[c] : t.handle = debounce[c]

C8_Witness ==
  /\ last.op = "sendTelemetry"
  /\ last.info = "rearmed"
  /\ Cardinality(timers[last.client]) = 1

(* C9: for a client configured with false or with the empty map, prepareTelemetry
   yields no field for any raw event, its queue is empty, and none of its calls got
   past the early return. *)
C9_DroppedNeverQueued ==
  \A c \in Clients :
     DropsEverything(config[c]) =>
       /\ \A raw \in RawEvents : ObjectKeys(prepareTelemetry(config[c], raw)) = {}
       /\ queue[c] = << >>
       /\ \A i \in 1..Len(waiters) : waiters[i].client # c
       /\ \A i \in 1..Len(microtasks) : microtasks[i].call.client # c

C9_Witness ==
  /\ last.op = "sendTelemetry"
  /\ last.info = "dropped"
  /\ DropsEverything(config[last.client])
  /\ submitted = 2
  /\ config["c1"] = CfgFalse
  /\ config["c2"] = CfgEmpty
  /\ last.client = "c2"

(* C10: for a map with at least one entry, the prepared record has the authentication
   field iff its switch is not false, the status code iff its switch is not false, both
   timestamps iff the timings switch is not false, every ungated key, and each value is
   the raw event's; with only timings off exactly the two timestamps are missing. *)
C10_GatedFields ==
  (/\ last.op = "prepareTelemetry"
   /\ ~config[last.client].isBool
   /\ ObjectKeys(config[last.client].map) # {})
  => LET map == config[last.client].map
         keys == ObjectKeys(last.prepared)
     IN /\ ("authentication" \in keys)
              <=> (Get(map, "allowedToPassAuthenticationType") # "false")
        /\ ("requestStatusCode" \in keys)
              <=> (Get(map, "allowedToPassRequestStatusCode") # "false")
        /\ ("requestStartTime" \in keys)
              <=> (Get(map, "allowedToPassRequestTimings") # "false")
        /\ ("requestEndTime" \in keys)
              <=> (Get(map, "allowedToPassRequestTimings") # "false")
        /\ UngatedKeys \subseteq keys
        /\ keys \subseteq TelemetryKeys
        /\ \A k \in keys : last.prepared[k] = Get(last.raw, k)
        /\ config[last.client] = CfgNoTimings
              => keys = TelemetryKeys \ {"requestStartTime", "requestEndTime"}

C10_Witness ==
  /\ last.op = "prepareTelemetry"
  /\ config[last.client] = CfgNoTimings
  /\ last.raw = RawB
  /\ ObjectKeys(last.prepared) = TelemetryKeys \ {"requestStartTime", "requestEndTime"}

(* C11: a client whose map switches all three categories off is not dropped: its
   sendTelemetry gets past the early return with the ungated keys as prepared record
   and its call awaits the time difference; when the call resumes, the record it
   pushes is the last of that client's queue and carries the ungated keys and the
   metadata. *)
C11_AllOffStillQueued ==
  \A c \in Clients :
     config[c] = CfgAllOff =>
       /\ \A raw \in RawEvents :
             ObjectKeys(prepareTelemetry(config[c], raw)) = UngatedKeys
       /\ (last.op = "sendTelemetry" /\ last.client = c /\ last.raw \in RawEvents) =>
             /\ last.info = "armed" \/ last.info = "rearmed"
             /\ ObjectKeys(last.prepared) = UngatedKeys
             /\ \/ \E i \in 1..Len(waiters) : waiters[i].id = submitted
                \/ \E i \in 1..Len(microtasks) : microtasks[i].call.id = submitted
       /\ (last.op = "push" /\ last.client = c) =>
             /\ Len(queue[c]) >= 1
             /\ ObjectKeys(queue[c][Len(queue[c])].data) = UngatedKeys \cup MetadataKeys

C11_Witness ==
  /\ last.op = "push"
  /\ config[last.client] = CfgAllOff
  /\ Len(queue[last.client]) >= 1
  /\ ObjectKeys(queue[last.client][1].data) = UngatedKeys \cup MetadataKeys

(* C12: with the configuration true the prepared record is the raw event itself: the
   same keys, each with the same value. *)
C12_TrueKeepsEverything ==
  (last.op = "prepareTelemetry" /\ config[last.client] = CfgTrue)
  => /\ ObjectKeys(last.prepared) = ObjectKeys(last.raw)
     /\ \A k \in ObjectKeys(last.raw) : last.prepared[k] = last.raw[k]

C12_Witness ==
  /\ last.op = "prepareTelemetry"
  /\ config[last.client] = CfgTrue
  /\ last.raw = RawB
  /\ last.prepared = RawB

(* C13: a timer that fires while its client's queue is empty issues no POST and
   leaves no upload in flight; every POST ever issued carries at least one record. *)
C13_EmptyFlushNoDispatch ==
  [][/\ (last'.op = "timerFire" /\ Len(queue[last'.client]) = 0)
          => (dispatches' = dispatches /\ uploads' = uploads)
     /\ \A d \in 1..Len(dispatches') : Len(dispatches'[d].body) >= 1]_vars

C13_Witness ==
  /\ last.op = "timerFire"
  /\ last.info = "empty"
  /\ queue[last.client] = << >>
  /\ dispatches = << >>
  /\ uploads = {}

(* C14: a timer that fires while its client's queue holds N >= 1 records issues exactly
   one POST; its payload has N elements, element i is record i of the queue (the
   members JSON keeps, with their values), and the queue itself is left as it was. *)
C14_FlushSendsWholeQueue ==
  [][(last'.op = "timerFire" /\ Len(queue[last'.client]) >= 1)
       => LET c == last'.client
              q == queue[c]
              sent == dispatches'[Len(dispatches')]
          IN /\ Len(dispatches') = Len(dispatches) + 1
             /\ SubSeq(dispatches', 1, Len(dispatches)) = dispatches
             /\ uploads' = uploads \cup {Len(dispatches')}
             /\ sent.client = c
             /\ Len(sent.body) = Len(q)
             /\ sent.ids = [i \in 1..Len(q) |-> q[i].id]
             /\ \A i \in 1..Len(q) :
                   /\ DOMAIN sent.body[i] \subseteq DOMAIN q[i].data
                   /\ MetadataKeys \cup (RequiredKeys \cap DOMAIN q[i].data)
                         \subseteq DOMAIN sent.body[i]
                   /\ \A k \in DOMAIN sent.body[i] \ {"timeDifference"} :
                         sent.body[i][k] = q[i].data[k]
                   /\ q[i].data["timeDifference"].t = "num"
                         => sent.body[i]["timeDifference"] = q[i].data["timeDifference"]
             /\ queue' = queue]_vars

C14_Witness ==
  /\ last.op = "timerFire"
  /\ last.info = "dispatched"
  /\ Len(queue[last.client]) = 2
  /\ Len(dispatches) = 1
  /\ dispatches[1].ids = <<1, 2>>

(* C15: no exception ever leaves sendTelemetry or sendBulk, whatever the time source
   and the upload answer and also when the raw event is null. *)
C15_NothingEscapes == escaped = {}

C15_Witness ==
  /\ last.op = "sendBulkResume"
  /\ last.info = "rejected"
  /\ timeDifference = TdNull
  /\ submitted = 2
  /\ \A c \in Clients : ~DropsEverything(config[c])
  /\ dispatches[1].ids = <<2>>
  /\ escaped = {}

(* C16: whenever a client's queue holds a record, that client has a timer pending or an
   upload in flight. *)
C16_QueuedImpliesFlushPending ==
  \A c \in Clients :
     queue[c] # << >> =>
       \/ timers[c] # {}
       \/ \E u \in uploads : dispatches[u].client = c

(* C17: every record a finishing flush removes from the queue was part of the payload
   that flush had dispatched. *)
C17_RemovedWasSent ==
  [][last'.op = "sendBulkResume"
       => \A i \in 1..Len(queue[last'.client]) :
            LET id == queue[last'.client][i].id
            IN id \notin Range(RecordIds(queue'[last'.client]))
                 => id \in Range(dispatches[last'.at].ids)]_vars

(* C18: a step changes a client's queue in two ways only: the resumed sendTelemetry
   appends one record at the tail (also when an equal record is queued already), and a
   sendBulk resumed from the fetch it dispatched empties the queue; every other step
   leaves it as it is. *)
C18_AppendOrClear ==
  [][\A c \in Clients :
       \/ /\ last'.op = "push" /\ last'.client = c
          /\ Len(queue'[c]) = Len(queue[c]) + 1
          /\ SubSeq(queue'[c], 1, Len(queue[c])) = queue[c]
       \/ /\ ~(last'.op = "push" /\ last'.client = c)
          /\ queue'[c] = queue[c]
       \/ /\ last'.op = "sendBulkResume" /\ last'.client = c
          /\ last'.at \in uploads
          /\ dispatches[last'.at].client = c
          /\ queue[c] # << >>
          /\ queue'[c] = << >>]_vars

C18_Witness ==
  /\ last.op = "push"
  /\ Len(queue[last.client]) = 2
  /\ queue[last.client][1].data = queue[last.client][2].data
  /\ queue[last.client][1].id # queue[last.client][2].id

(* C19: a sendTelemetry that returns early changes nothing of the client or of the
   clock-skew state; a client configured with false or the empty map returns early
   from every call, so it never has a timer, never starts a clock request and never
   posts. *)
C19_DroppedHasNoEffect ==
  [][/\ (last'.op = "sendTelemetry" /\ last'.info = "dropped")
          => UNCHANGED <<queue, debounce, timers, timeDifference, timeDifferenceRequest,
                         waiters, microtasks, uploads, dispatches, clockRequests>>
     /\ \A c \in Clients :
          DropsEverything(config[c]) =>
            /\ (last'.op = "sendTelemetry" /\ last'.client = c)
                  => (last'.info = "dropped" /\ clockRequests' = clockRequests)
            /\ timers'[c] = {}
            /\ debounce'[c] = 0
            /\ \A d \in 1..Len(dispatches') : dispatches'[d].client # c]_vars

C19_Witness ==
  /\ last.op = "sendTelemetry"
  /\ last.info = "dropped"
  /\ \A c \in Clients : DropsEverything(config[c])
  /\ submitted = 2
  /\ clockRequests = 0
  /\ timeDifferenceRequest = Unset
  /\ dispatches = << >>
  /\ \A c \in Clients : timers[c] = {}

(* C20: nothing caps the wait.  A sendTelemetry that passes the early return leaves its
   client with exactly one timer, due DebounceDelay after this call whatever deadline
   was pending before, and a timer that fires is the one the client's most recent such
   call armed, at least DebounceDelay earlier.  So while calls keep arriving less than
   DebounceDelay apart no flush fires. *)
C20_FlushOnlyAfterQuietWindow ==
  [][/\ (last'.op = "sendTelemetry" /\ last'.info \in {"armed", "rearmed"})
          => timers'[last'.client] =
               {[handle |-> debounce'[last'.client], armedAt |-> now,
                 due |-> now + DebounceDelay]}
     /\ last'.op = "timerFire"
          => \E t \in timers[last'.client] :
               /\ timers'[last'.client] = timers[last'.client] \ {t}
               /\ t.handle = debounce[last'.client]
               /\ t.armedAt = last'.at
               /\ now >= t.armedAt + DebounceDelay]_vars

(* a call re-arms a timer that was armed earlier and is not due yet: the flush moves
   from StartTime + DebounceDelay to now + DebounceDelay, nothing has been posted *)
C20_Witness ==
  /\ last.op = "sendTelemetry"
  /\ last.info = "rearmed"
  /\ last.at = StartTime
  /\ now = StartTime + TickMs
  /\ \A t \in timers[last.client] : t.due = now + DebounceDelay
  /\ timers[last.client] # {}
  /\ dispatches = << >>

====
